---- MODULE Spec2Model ----
(***************************************************************************)
(* Model of the binary codecs of port-staking-instructions:                *)
(*   - StakingInstruction::pack / unpack      (src/src/instruction.rs)     *)
(*   - Pack for StakeAccount                  (src/src/state/stake_account.rs) *)
(*   - Pack for StakingPool                   (src/src/state/staking_pool.rs)  *)
(*                                                                         *)
(* A byte is a number in 0..255 and a buffer is a sequence of bytes.       *)
(* A u64 is kept as four 16-bit limbs, least significant first, so that    *)
(* the whole 64-bit range is representable and to_le_bytes/from_le_bytes   *)
(* are real conversions (div and mod), not the identity.  A Pubkey is its  *)
(* 32-byte array, as in solana_program.                                    *)
(***************************************************************************)
EXTENDS Integers, Sequences, FiniteSets, TLC

VARIABLES
    ins,      \* the StakingInstruction value last handed to pack
    data,     \* the instruction data buffer (pack's Vec<u8>, then as the caller edited it)
    wire,     \* how data came about: "none", "exact" (as packed), "truncated",
              \* "extended", "retagged" or "raw" (bytes no pack produced)
    decoded,  \* the result of StakingInstruction::unpack on data, or NoResult
    acct,     \* the record (StakeAccount or StakingPool) last handed to pack_into_slice
    prev,     \* the destination buffer as it was before pack_into_slice ran
    buf,      \* the account data buffer
    packRes,  \* the outcome of the last pack_into_slice: NoResult, Done or Panic
    stage,    \* how buf came about: "fresh" (a zeroed account), "packed" (as
              \* pack_into_slice left it) or "edited"
    rres      \* the result of unpack_from_slice on buf, or NoResult

vars == <<ins, data, wire, decoded, acct, prev, buf, packRes, stage, rres>>

(***************************************************************************)
(* Bounds of the model.                                                    *)
(***************************************************************************)
\* the most bytes a caller appends after an encoded instruction
MaxTrail == 2
\* the most bytes a destination buffer is longer than the record's LEN
MaxExtra == 2

(***************************************************************************)
(* Results.                                                                *)
(***************************************************************************)
NoResult == [ok |-> FALSE, err |-> "none"]
Ok(v) == [ok |-> TRUE, val |-> v]
Err(e) == [ok |-> FALSE, err |-> e]
\* a Rust panic (slice index out of range): the call aborts, no value is returned
Panic == [ok |-> FALSE, err |-> "panic"]
Done == [ok |-> TRUE, val |-> "unit"]

\* StakingError::InstructionUnpackError.into()
InstructionUnpackError == Err("InstructionUnpackError")
\* ProgramError::InvalidAccountData
InvalidAccountData == Err("InvalidAccountData")

(***************************************************************************)
(* Bytes and integers.                                                     *)
(***************************************************************************)
Byte == 0..255
Limb == 0..65535

\* u64::to_le_bytes on a value of n limbs: 2n bytes, least significant first
to_le_bytes(v) ==
    [i \in 1..(2 * Len(v)) |->
        IF i % 2 = 1 THEN v[(i + 1) \div 2] % 256 ELSE v[i \div 2] \div 256]

\* u64::from_le_bytes on 2n bytes
from_le_bytes(b) ==
    [k \in 1..(Len(b) \div 2) |-> b[2 * k - 1] + 256 * b[2 * k]]

\* u8::to_le_bytes, u8::from_le_bytes
u8_to_le_bytes(v) == <<v>>
u8_from_le_bytes(b) == b[1]

\* slice.split_at(n)
split_at(s, n) == <<SubSeq(s, 1, n), SubSeq(s, n + 1, Len(s))>>

PUBKEY_BYTES == 32

\* Pubkey::new(&[u8]) and Pubkey::new_from_array: the key is its 32 bytes
Pubkey_new(key) == [i \in 1..PUBKEY_BYTES |-> key[i]]
\* Pubkey::as_ref
Pubkey_as_ref(pk) == pk

(***************************************************************************)
(* StakingInstruction                                                      *)
(***************************************************************************)
InitStakingPool(s, d, e, b, p, a) ==
    [variant |-> "InitStakingPool", supply |-> s, duration |-> d,
     earliest_reward_claim_time |-> e, bump_seed_staking_program |-> b,
     pool_owner_authority |-> p, admin_authority |-> a]
CreateStakeAccount == [variant |-> "CreateStakeAccount"]
Deposit(a) == [variant |-> "Deposit", amount |-> a]
Withdraw(a) == [variant |-> "Withdraw", amount |-> a]
ClaimReward == [variant |-> "ClaimReward"]

\* Faulty variant of unpack_u64: a short input is read as if zero-extended.
unpack_u64_padded(input) ==
    IF Len(input) < 8
    THEN Ok(<<from_le_bytes(input \o [i \in 1..(8 - Len(input)) |-> 0]), <<>> >>)
    ELSE LET sp == split_at(input, 8)
         IN  Ok(<<from_le_bytes(sp[1]), sp[2]>>)

unpack_u64(input) ==
    IF Len(input) < 8 THEN InstructionUnpackError
    ELSE LET sp == split_at(input, 8)
         IN  Ok(<<from_le_bytes(sp[1]), sp[2]>>)

unpack_pubkey(input) ==
    IF Len(input) < PUBKEY_BYTES THEN InstructionUnpackError
    ELSE LET sp == split_at(input, PUBKEY_BYTES)
         IN  Ok(<<Pubkey_new(sp[1]), sp[2]>>)

unpack_u8(input) ==
    IF input = <<>> THEN InstructionUnpackError
    ELSE LET sp == split_at(input, 1)
         IN  Ok(<<u8_from_le_bytes(sp[1]), sp[2]>>)

\* Faulty variant of unpack_init: duration and earliest_reward_claim_time are
\* assigned from each other's bytes.
unpack_init_swapped(rest0) ==
    LET r1 == unpack_u64(rest0) IN
    IF ~r1.ok THEN r1 ELSE
    LET r2 == unpack_u64(r1.val[2]) IN
    IF ~r2.ok THEN r2 ELSE
    LET r3 == unpack_u64(r2.val[2]) IN
    IF ~r3.ok THEN r3 ELSE
    LET r4 == unpack_u8(r3.val[2]) IN
    IF ~r4.ok THEN r4 ELSE
    LET r5 == unpack_pubkey(r4.val[2]) IN
    IF ~r5.ok THEN r5 ELSE
    LET r6 == unpack_pubkey(r5.val[2]) IN
    IF ~r6.ok THEN r6 ELSE
    Ok(<<InitStakingPool(r1.val[1], r3.val[1], r2.val[1], r4.val[1],
                         r5.val[1], r6.val[1]), r6.val[2]>>)

\* the arm of tag 0: six field reads, each `?` returning the first error
unpack_init(rest0) ==
    LET r1 == unpack_u64(rest0) IN
    IF ~r1.ok THEN r1 ELSE
    LET r2 == unpack_u64(r1.val[2]) IN
    IF ~r2.ok THEN r2 ELSE
    LET r3 == unpack_u64(r2.val[2]) IN
    IF ~r3.ok THEN r3 ELSE
    LET r4 == unpack_u8(r3.val[2]) IN
    IF ~r4.ok THEN r4 ELSE
    LET r5 == unpack_pubkey(r4.val[2]) IN
    IF ~r5.ok THEN r5 ELSE
    LET r6 == unpack_pubkey(r5.val[2]) IN
    IF ~r6.ok THEN r6 ELSE
    Ok(<<InitStakingPool(r1.val[1], r2.val[1], r3.val[1], r4.val[1],
                         r5.val[1], r6.val[1]), r6.val[2]>>)

\* the arm of tag 2
unpack_deposit(rest0) ==
    LET r == unpack_u64(rest0) IN
    IF ~r.ok THEN r ELSE Ok(<<Deposit(r.val[1]), r.val[2]>>)

\* the arm of tag 3
unpack_withdraw(rest0) ==
    LET r == unpack_u64(rest0) IN
    IF ~r.ok THEN r ELSE Ok(<<Withdraw(r.val[1]), r.val[2]>>)

\* Faulty variant of unpack_tag: the catch-all arm yields an instruction.
unpack_tag_catch_all(tag, rest) ==
    CASE tag = 0 -> unpack_init(rest)
      [] tag = 1 -> Ok(<<CreateStakeAccount, rest>>)
      [] tag = 2 -> unpack_deposit(rest)
      [] tag = 3 -> unpack_withdraw(rest)
      [] OTHER -> Ok(<<ClaimReward, rest>>)

\* Faulty variant of unpack_tag: only the low three bits of the tag are
\* looked at.
unpack_tag_low_bits(tag, rest) ==
    CASE tag % 8 = 0 -> unpack_init(rest)
      [] tag % 8 = 1 -> Ok(<<CreateStakeAccount, rest>>)
      [] tag % 8 = 2 -> unpack_deposit(rest)
      [] tag % 8 = 3 -> unpack_withdraw(rest)
      [] tag % 8 = 4 -> Ok(<<ClaimReward, rest>>)
      [] OTHER -> InstructionUnpackError

\* the match on the tag: Ok(<<instruction, rest>>) or an error
unpack_tag(tag, rest) ==
    CASE tag = 0 -> unpack_init(rest)
      [] tag = 1 -> Ok(<<CreateStakeAccount, rest>>)
      [] tag = 2 -> unpack_deposit(rest)
      [] tag = 3 -> unpack_withdraw(rest)
      [] tag = 4 -> Ok(<<ClaimReward, rest>>)
      [] OTHER -> InstructionUnpackError

\* Faulty variant of unpack_finish: the rest of the input is dropped.
unpack_finish_lenient(r) ==
    IF ~r.ok THEN r ELSE Ok(r.val[1])

\* the final and_then: the whole input must have been consumed
unpack_finish(r) ==
    IF ~r.ok THEN r
    ELSE IF r.val[2] = <<>> THEN Ok(r.val[1]) ELSE InstructionUnpackError

\* StakingInstruction::unpack
unpack(input) ==
    IF input = <<>> THEN InstructionUnpackError
    ELSE unpack_finish(unpack_tag(Head(input), Tail(input)))

\* Faulty variant of pack: earliest_reward_claim_time is written before
\* duration.
pack_swapped(x) ==
    CASE x.variant = "InitStakingPool" ->
            <<0>> \o to_le_bytes(x.supply)
                  \o to_le_bytes(x.earliest_reward_claim_time)
                  \o to_le_bytes(x.duration)
                  \o u8_to_le_bytes(x.bump_seed_staking_program)
                  \o Pubkey_as_ref(x.pool_owner_authority)
                  \o Pubkey_as_ref(x.admin_authority)
      [] x.variant = "CreateStakeAccount" -> <<1>>
      [] x.variant = "Deposit" -> <<2>> \o to_le_bytes(x.amount)
      [] x.variant = "Withdraw" -> <<3>> \o to_le_bytes(x.amount)
      [] x.variant = "ClaimReward" -> <<4>>

\* StakingInstruction::pack
pack(x) ==
    CASE x.variant = "InitStakingPool" ->
            <<0>> \o to_le_bytes(x.supply)
                  \o to_le_bytes(x.duration)
                  \o to_le_bytes(x.earliest_reward_claim_time)
                  \o u8_to_le_bytes(x.bump_seed_staking_program)
                  \o Pubkey_as_ref(x.pool_owner_authority)
                  \o Pubkey_as_ref(x.admin_authority)
      [] x.variant = "CreateStakeAccount" -> <<1>>
      [] x.variant = "Deposit" -> <<2>> \o to_le_bytes(x.amount)
      [] x.variant = "Withdraw" -> <<3>> \o to_le_bytes(x.amount)
      [] x.variant = "ClaimReward" -> <<4>>

(***************************************************************************)
(* Inputs of the instruction codec.                                        *)
(***************************************************************************)
\* 0, 1, 1_000_000, 0x0807060504030201, u64::MAX
U64Samples ==
    { <<0, 0, 0, 0>>, <<1, 0, 0, 0>>, <<16960, 15, 0, 0>>,
      <<513, 1027, 1541, 2055>>, <<65535, 65535, 65535, 65535>> }
\* the u64 fields of InitStakingPool: 0, 0x0807060504030201, u64::MAX
InitU64Samples ==
    { <<0, 0, 0, 0>>, <<513, 1027, 1541, 2055>>, <<65535, 65535, 65535, 65535>> }
U8Samples == {0, 7, 255}
PkA == [i \in 1..PUBKEY_BYTES |-> i]
PkB == [i \in 1..PUBKEY_BYTES |-> 255 - i]
PkZero == [i \in 1..PUBKEY_BYTES |-> 0]
Instructions ==
    { InitStakingPool(s, d, e, b, k[1], k[2]) :
        s \in InitU64Samples, d \in InitU64Samples, e \in InitU64Samples,
        b \in U8Samples, k \in { <<PkZero, PkZero>>, <<PkA, PkB>> } }
    \cup { CreateStakeAccount, ClaimReward }
    \cup { Deposit(a) : a \in U64Samples }
    \cup { Withdraw(a) : a \in U64Samples }
\* bytes a caller appends or overwrites with
TrailBytes == {0, 1, 255}
UnknownTags == {5, 6, 127, 128, 255}
RECURSIVE SeqsOfLen(_, _)
SeqsOfLen(S, n) ==
    IF n = 0 THEN {<<>>}
    ELSE { <<b>> \o t : b \in S, t \in SeqsOfLen(S, n - 1) }
Trails == UNION { SeqsOfLen(TrailBytes, n) : n \in 1..MaxTrail }
\* instruction data that did not come from pack: nothing at all, or a tag byte
\* followed by a body of a length at or next to what some arm reads
\* (0, 8 and 89 bytes), all zeroes, all 255 or a changing pattern
RawTags == {0, 1, 2, 3, 4, 5}
RawLengths == {0, 1, 7, 8, 9, 88, 89, 90}
RawBodies ==
    { [i \in 1..n |-> 0] : n \in RawLengths }
    \cup { [i \in 1..n |-> 255] : n \in RawLengths }
    \cup { [i \in 1..n |-> (37 * i) % 256] : n \in RawLengths }
RawInputs == {<<>>} \cup { <<t>> \o b : t \in RawTags, b \in RawBodies }

(***************************************************************************)
(* Operations of the instruction codec.                                    *)
(***************************************************************************)
recVars == <<acct, prev, buf, packRes, stage, rres>>

\* a client encodes an instruction (one exchange: encode, transmit, decode)
Pack(x) ==
    /\ wire = "none"
    /\ decoded = NoResult
    /\ ins' = x
    /\ data' = pack(x)
    /\ wire' = "exact"
    /\ decoded' = NoResult
    /\ UNCHANGED recVars

\* the instruction data reaches the program cut short
Truncate(n) ==
    /\ decoded = NoResult
    /\ wire = "exact"
    /\ n < Len(data)
    /\ data' = SubSeq(data, 1, n)
    /\ wire' = "truncated"
    /\ UNCHANGED <<ins, decoded>>
    /\ UNCHANGED recVars

\* the instruction data reaches the program with bytes after it
AppendTrailing(t) ==
    /\ decoded = NoResult
    /\ wire = "exact"
    /\ data' = data \o t
    /\ wire' = "extended"
    /\ UNCHANGED <<ins, decoded>>
    /\ UNCHANGED recVars

\* the instruction data reaches the program with another tag byte
Retag(b) ==
    /\ decoded = NoResult
    /\ wire = "exact"
    /\ data' = <<b>> \o Tail(data)
    /\ wire' = "retagged"
    /\ UNCHANGED <<ins, decoded>>
    /\ UNCHANGED recVars

\* the program is sent instruction data that no pack produced
Receive(b) ==
    /\ wire = "none"
    /\ decoded = NoResult
    /\ data' = b
    /\ wire' = "raw"
    /\ UNCHANGED <<ins, decoded>>
    /\ UNCHANGED recVars

\* the program decodes the instruction data
Unpack ==
    /\ decoded = NoResult
    /\ decoded' = unpack(data)
    /\ UNCHANGED <<ins, data, wire>>
    /\ UNCHANGED recVars

(***************************************************************************)
(* The fixed-point Decimal of solana_maths, an external collaborator whose *)
(* source is not part of the repository.  Modelled from its wire contract: *)
(* a fixed LEN, a total pack, and an unpack that is pack's inverse and     *)
(* fails on a malformed encoding.  A Decimal is its scaled value in eight  *)
(* 16-bit limbs; the encodings whose last byte is 255 stand for the        *)
(* malformed ones, and no Decimal value packs to one of them.              *)
(***************************************************************************)
DecimalLEN == 16
Decimal_malformed(src) == src[DecimalLEN] = 255
Decimal_pack(d) == to_le_bytes(d)
Decimal_unpack_from_slice(src) ==
    IF Decimal_malformed(src) THEN Err("DecimalUnpackError")
    ELSE Ok(from_le_bytes(src))

(***************************************************************************)
(* state/mod.rs                                                            *)
(***************************************************************************)
PROGRAM_VERSION == 1
UNINITIALIZED_VERSION == 0

(***************************************************************************)
(* arrayref: array_ref!/array_mut_ref! index the slice (a panic when it is *)
(* too short); array_refs!/mut_array_refs! split the array into adjacent   *)
(* regions of the given widths.                                            *)
(***************************************************************************)
RECURSIVE SumTo(_, _)
SumTo(w, k) == IF k = 0 THEN 0 ELSE w[k] + SumTo(w, k - 1)
\* the offset of the k-th region
Off(w, k) == SumTo(w, k - 1)
\* the k-th region of an array split by the widths w
region(src, w, k) == SubSeq(src, Off(w, k) + 1, Off(w, k) + w[k])
\* a store through the k-th mutable region
write(dst, w, k, bytes) ==
    SubSeq(dst, 1, Off(w, k)) \o SubSeq(bytes, 1, w[k])
        \o SubSeq(dst, Off(w, k) + w[k] + 1, Len(dst))

(***************************************************************************)
(* StakeAccount                                                            *)
(***************************************************************************)
StakeAccount(v, sr, o, pp, da, urw, r1, r2, r3, r4) ==
    [kind |-> "StakeAccount", version |-> v, start_rate |-> sr, owner |-> o,
     pool_pubkey |-> pp, deposited_amount |-> da, unclaimed_reward_wads |-> urw,
     reserve_fields1 |-> r1, reserve_fields2 |-> r2,
     reserve_fields3 |-> r3, reserve_fields4 |-> r4]

StakeAccountWidths ==
    <<1, DecimalLEN, PUBKEY_BYTES, PUBKEY_BYTES, 8, DecimalLEN, 128>>
StakeAccountLEN == 1 + DecimalLEN + PUBKEY_BYTES + PUBKEY_BYTES + 8 + DecimalLEN + 128

reserve_field == [i \in 1..32 |-> 0]

\* Faulty variant of StakeAccount::pack_into_slice: the destination is zeroed
\* from the reserved region to its end.
StakeAccount_pack_into_slice_zero_tail(self, dst) ==
    IF Len(dst) < StakeAccountLEN THEN [res |-> Panic, buf |-> dst]
    ELSE LET w == StakeAccountWidths
             d1 == write(dst, w, 1, u8_to_le_bytes(self.version))
             d2 == write(d1, w, 2, Decimal_pack(self.start_rate))
             d3 == write(d2, w, 3, Pubkey_as_ref(self.owner))
             d4 == write(d3, w, 4, Pubkey_as_ref(self.pool_pubkey))
             d5 == write(d4, w, 5, to_le_bytes(self.deposited_amount))
             d6 == write(d5, w, 6, Decimal_pack(self.unclaimed_reward_wads))
         IN  [res |-> Done,
              buf |-> SubSeq(d6, 1, Off(w, 7))
                        \o [i \in 1..(Len(dst) - Off(w, 7)) |-> 0]]

\* StakeAccount::pack_into_slice: the outcome and the destination afterwards
StakeAccount_pack_into_slice(self, dst) ==
    IF Len(dst) < StakeAccountLEN THEN [res |-> Panic, buf |-> dst]
    ELSE LET w == StakeAccountWidths
             d1 == write(dst, w, 1, u8_to_le_bytes(self.version))
             d2 == write(d1, w, 2, Decimal_pack(self.start_rate))
             d3 == write(d2, w, 3, Pubkey_as_ref(self.owner))
             d4 == write(d3, w, 4, Pubkey_as_ref(self.pool_pubkey))
             d5 == write(d4, w, 5, to_le_bytes(self.deposited_amount))
             d6 == write(d5, w, 6, Decimal_pack(self.unclaimed_reward_wads))
         IN  [res |-> Done, buf |-> d6]

\* Faulty variant of StakeAccount::unpack_from_slice: the version is checked
\* after the Decimal fields are decoded.
StakeAccount_unpack_from_slice_late_gate(src) ==
    IF Len(src) < StakeAccountLEN THEN Panic
    ELSE LET w == StakeAccountWidths
             version == u8_from_le_bytes(region(src, w, 1))
             start_rate == Decimal_unpack_from_slice(region(src, w, 2))
         IN  IF ~start_rate.ok THEN start_rate ELSE
             LET owner == Pubkey_new(region(src, w, 3))
                 pool_pubkey == Pubkey_new(region(src, w, 4))
                 deposited_value == from_le_bytes(region(src, w, 5))
                 unclaimed_reward_wads ==
                     Decimal_unpack_from_slice(region(src, w, 6))
             IN  IF ~unclaimed_reward_wads.ok THEN unclaimed_reward_wads
                 ELSE IF version > PROGRAM_VERSION THEN InvalidAccountData
                 ELSE Ok(StakeAccount(version, start_rate.val, owner,
                                      pool_pubkey, deposited_value,
                                      unclaimed_reward_wads.val,
                                      reserve_field, reserve_field,
                                      reserve_field, reserve_field))

\* StakeAccount::unpack_from_slice
StakeAccount_unpack_from_slice(src) ==
    IF Len(src) < StakeAccountLEN THEN Panic
    ELSE LET w == StakeAccountWidths
             version == u8_from_le_bytes(region(src, w, 1))
         IN  IF version > PROGRAM_VERSION THEN InvalidAccountData
             ELSE LET start_rate == Decimal_unpack_from_slice(region(src, w, 2)) IN
                  IF ~start_rate.ok THEN start_rate ELSE
                  LET owner == Pubkey_new(region(src, w, 3))
                      pool_pubkey == Pubkey_new(region(src, w, 4))
                      deposited_value == from_le_bytes(region(src, w, 5))
                      unclaimed_reward_wads ==
                          Decimal_unpack_from_slice(region(src, w, 6))
                  IN  IF ~unclaimed_reward_wads.ok THEN unclaimed_reward_wads
                      ELSE Ok(StakeAccount(version, start_rate.val, owner,
                                           pool_pubkey, deposited_value,
                                           unclaimed_reward_wads.val,
                                           reserve_field, reserve_field,
                                           reserve_field, reserve_field))

(***************************************************************************)
(* StakingPool                                                             *)
(***************************************************************************)
StakingPool(v, oa, aa, rtp, lu, et, erct, du, rps, cr, ps, bs, r1, r2, r3, r4) ==
    [kind |-> "StakingPool", version |-> v, owner_authority |-> oa,
     admin_authority |-> aa, reward_token_pool |-> rtp, last_update |-> lu,
     end_time |-> et, earliest_reward_claim_time |-> erct, duration |-> du,
     rate_per_slot |-> rps, cumulative_rate |-> cr, pool_size |-> ps,
     bump_seed_staking_program |-> bs,
     reserve_fields1 |-> r1, reserve_fields2 |-> r2,
     reserve_fields3 |-> r3, reserve_fields4 |-> r4]

StakingPoolWidths ==
    <<1, PUBKEY_BYTES, PUBKEY_BYTES, PUBKEY_BYTES, 8, 8, 8, 8,
      DecimalLEN, DecimalLEN, 8, 1, 128>>
StakingPoolLEN ==
    1 + PUBKEY_BYTES + PUBKEY_BYTES + PUBKEY_BYTES + 8 + 8 + 8 + 8
      + DecimalLEN + DecimalLEN + 8 + 1 + 128

\* Faulty variant of StakingPool::pack_into_slice: the slots are written in the
\* order the struct declares them, earliest_reward_claim_time before duration.
StakingPool_pack_into_slice_struct_order(self, dst) ==
    IF Len(dst) < StakingPoolLEN THEN [res |-> Panic, buf |-> dst]
    ELSE LET w == StakingPoolWidths
             d1 == write(dst, w, 1, u8_to_le_bytes(self.version))
             d2 == write(d1, w, 2, Pubkey_as_ref(self.owner_authority))
             d3 == write(d2, w, 3, Pubkey_as_ref(self.admin_authority))
             d4 == write(d3, w, 4, Pubkey_as_ref(self.reward_token_pool))
             d5 == write(d4, w, 5, to_le_bytes(self.last_update))
             d6 == write(d5, w, 6, to_le_bytes(self.end_time))
             d7 == write(d6, w, 7, to_le_bytes(self.earliest_reward_claim_time))
             d8 == write(d7, w, 8, to_le_bytes(self.duration))
             d9 == write(d8, w, 9, Decimal_pack(self.rate_per_slot))
             d10 == write(d9, w, 10, Decimal_pack(self.cumulative_rate))
             d11 == write(d10, w, 11, to_le_bytes(self.pool_size))
             d12 == write(d11, w, 12,
                          u8_to_le_bytes(self.bump_seed_staking_program))
         IN  [res |-> Done, buf |-> d12]

\* StakingPool::pack_into_slice: the outcome and the destination afterwards
StakingPool_pack_into_slice(self, dst) ==
    IF Len(dst) < StakingPoolLEN THEN [res |-> Panic, buf |-> dst]
    ELSE LET w == StakingPoolWidths
             d1 == write(dst, w, 1, u8_to_le_bytes(self.version))
             d2 == write(d1, w, 2, Pubkey_as_ref(self.owner_authority))
             d3 == write(d2, w, 3, Pubkey_as_ref(self.admin_authority))
             d4 == write(d3, w, 4, Pubkey_as_ref(self.reward_token_pool))
             d5 == write(d4, w, 5, to_le_bytes(self.last_update))
             d6 == write(d5, w, 6, to_le_bytes(self.end_time))
             d7 == write(d6, w, 7, to_le_bytes(self.duration))
             d8 == write(d7, w, 8, to_le_bytes(self.earliest_reward_claim_time))
             d9 == write(d8, w, 9, Decimal_pack(self.rate_per_slot))
             d10 == write(d9, w, 10, Decimal_pack(self.cumulative_rate))
             d11 == write(d10, w, 11, to_le_bytes(self.pool_size))
             d12 == write(d11, w, 12,
                          u8_to_le_bytes(self.bump_seed_staking_program))
         IN  [res |-> Done, buf |-> d12]

\* Faulty variant of StakingPool::unpack_from_slice: duration and
\* earliest_reward_claim_time are assigned to each other's field.
StakingPool_unpack_from_slice_swapped(src) ==
    IF Len(src) < StakingPoolLEN THEN Panic
    ELSE LET w == StakingPoolWidths
             version == u8_from_le_bytes(region(src, w, 1))
         IN  IF version > PROGRAM_VERSION THEN InvalidAccountData
             ELSE LET owner_authority == Pubkey_new(region(src, w, 2))
                      admin_authority == Pubkey_new(region(src, w, 3))
                      supply_pubkey == Pubkey_new(region(src, w, 4))
                      last_update == from_le_bytes(region(src, w, 5))
                      end_time == from_le_bytes(region(src, w, 6))
                      duration == from_le_bytes(region(src, w, 7))
                      earliest_reward_claim_time ==
                          from_le_bytes(region(src, w, 8))
                      rate_per_slot ==
                          Decimal_unpack_from_slice(region(src, w, 9))
                  IN  IF ~rate_per_slot.ok THEN rate_per_slot ELSE
                      LET cumulative_rate ==
                              Decimal_unpack_from_slice(region(src, w, 10))
                      IN  IF ~cumulative_rate.ok THEN cumulative_rate ELSE
                          LET pool_size == from_le_bytes(region(src, w, 11))
                              bump_seed_staking_program ==
                                  u8_from_le_bytes(region(src, w, 12))
                          IN  Ok(StakingPool(version, owner_authority,
                                     admin_authority, supply_pubkey,
                                     last_update, end_time,
                                     duration, earliest_reward_claim_time,
                                     rate_per_slot.val, cumulative_rate.val,
                                     pool_size, bump_seed_staking_program,
                                     reserve_field, reserve_field,
                                     reserve_field, reserve_field))

\* StakingPool::unpack_from_slice
StakingPool_unpack_from_slice(src) ==
    IF Len(src) < StakingPoolLEN THEN Panic
    ELSE LET w == StakingPoolWidths
             version == u8_from_le_bytes(region(src, w, 1))
         IN  IF version > PROGRAM_VERSION THEN InvalidAccountData
             ELSE LET owner_authority == Pubkey_new(region(src, w, 2))
                      admin_authority == Pubkey_new(region(src, w, 3))
                      supply_pubkey == Pubkey_new(region(src, w, 4))
                      last_update == from_le_bytes(region(src, w, 5))
                      end_time == from_le_bytes(region(src, w, 6))
                      duration == from_le_bytes(region(src, w, 7))
                      earliest_reward_claim_time ==
                          from_le_bytes(region(src, w, 8))
                      rate_per_slot ==
                          Decimal_unpack_from_slice(region(src, w, 9))
                  IN  IF ~rate_per_slot.ok THEN rate_per_slot ELSE
                      LET cumulative_rate ==
                              Decimal_unpack_from_slice(region(src, w, 10))
                      IN  IF ~cumulative_rate.ok THEN cumulative_rate ELSE
                          LET pool_size == from_le_bytes(region(src, w, 11))
                              bump_seed_staking_program ==
                                  u8_from_le_bytes(region(src, w, 12))
                          IN  Ok(StakingPool(version, owner_authority,
                                     admin_authority, supply_pubkey,
                                     last_update, end_time,
                                     earliest_reward_claim_time, duration,
                                     rate_per_slot.val, cumulative_rate.val,
                                     pool_size, bump_seed_staking_program,
                                     reserve_field, reserve_field,
                                     reserve_field, reserve_field))

\* Pack::LEN, pack_into_slice and unpack_from_slice of the record's own type
LEN(kind) == IF kind = "StakeAccount" THEN StakeAccountLEN ELSE StakingPoolLEN
Widths(kind) ==
    IF kind = "StakeAccount" THEN StakeAccountWidths ELSE StakingPoolWidths
pack_into_slice(self, dst) ==
    IF self.kind = "StakeAccount" THEN StakeAccount_pack_into_slice(self, dst)
    ELSE StakingPool_pack_into_slice(self, dst)
unpack_from_slice(kind, src) ==
    IF kind = "StakeAccount" THEN StakeAccount_unpack_from_slice(src)
    ELSE StakingPool_unpack_from_slice(src)

(***************************************************************************)
(* Inputs of the record codecs.                                            *)
(***************************************************************************)
\* 0, one WAD (10^18), and a value with sixteen different bytes
DecZero == <<0, 0, 0, 0, 0, 0, 0, 0>>
DecWad == <<0, 42852, 46771, 3552, 0, 0, 0, 0>>
DecBig == <<4369, 8738, 13107, 17476, 21845, 26214, 30583, 34952>>
U64A == <<513, 1027, 1541, 2055>>
U64B == <<61936, 62450, 62964, 63478>>
U64C == <<16960, 15, 0, 0>>
U64D == <<65535, 65535, 65535, 65535>>
U64Zero == <<0, 0, 0, 0>>
PkC == [i \in 1..PUBKEY_BYTES |-> 100 + i]
\* a reserved field some code filled in
ReserveDirty == [i \in 1..32 |-> 90]
Reserves == {reserve_field, ReserveDirty}
\* version bytes: uninitialized, current, and two from a later revision
Versions == {UNINITIALIZED_VERSION, PROGRAM_VERSION, PROGRAM_VERSION + 1, 255}

StakeAccounts ==
    { StakeAccount(v, d[1], k[1], k[2], k[3], d[2], r, reserve_field,
                   reserve_field, r) :
        v \in Versions,
        d \in { <<DecZero, DecZero>>, <<DecWad, DecBig>> },
        k \in { <<PkZero, PkZero, U64Zero>>, <<PkA, PkB, U64A>> },
        r \in Reserves }

StakingPools ==
    { StakingPool(v, k[1], k[2], k[3], t[1], t[2], t[3], t[4], d[1], d[2],
                  t[5], t[6], r, reserve_field, reserve_field, r) :
        v \in Versions,
        k \in { <<PkZero, PkZero, PkZero>>, <<PkA, PkB, PkC>> },
        t \in { <<U64Zero, U64Zero, U64Zero, U64Zero, U64Zero, 0>>,
                <<U64A, U64B, U64C, U64D, <<1, 2, 3, 4>>, 254>> },
        d \in { <<DecZero, DecZero>>, <<DecWad, DecBig>> },
        r \in Reserves }

Records == StakeAccounts \cup StakingPools

\* a buffer of n bytes, all of them b
Filled(n, b) == [i \in 1..n |-> b]
\* what a destination holds before a record is written to it: zeroes (a fresh
\* account) or other data, one byte short of LEN up to MaxExtra bytes longer
Fills == {0, 171}
Destinations(kind) ==
    { Filled(n, b) : n \in (LEN(kind) - 1)..(LEN(kind) + MaxExtra), b \in Fills }
\* lengths a record buffer is cut to
ShortLengths(kind) == {0, 1, LEN(kind) - 128, LEN(kind) - 1}
\* the regions of the record's layout that hold a Decimal
DecimalRegions(kind) == IF kind = "StakeAccount" THEN {2, 6} ELSE {9, 10}

(***************************************************************************)
(* Operations of the record codecs.                                        *)
(***************************************************************************)
insVars == <<ins, data, wire, decoded>>

\* the processor writes a record into an account's data (one write, then
\* one read back)
RecPack(r, d) ==
    /\ packRes = NoResult
    /\ rres = NoResult
    /\ acct' = r
    /\ prev' = d
    /\ buf' = pack_into_slice(r, d).buf
    /\ packRes' = pack_into_slice(r, d).res
    /\ stage' = "packed"
    /\ rres' = NoResult
    /\ UNCHANGED insVars

\* the account data carries another version byte
SetVersion(v) ==
    /\ rres = NoResult
    /\ Len(buf) >= 1
    /\ buf' = [buf EXCEPT ![1] = v]
    /\ stage' = "edited"
    /\ UNCHANGED <<acct, prev, packRes, rres>>
    /\ UNCHANGED insVars

\* the account data carries a malformed Decimal in region k
CorruptDecimal(k) ==
    /\ rres = NoResult
    /\ Len(buf) >= LEN(acct.kind)
    /\ buf' = [buf EXCEPT ![Off(Widths(acct.kind), k) + DecimalLEN] = 255]
    /\ stage' = "edited"
    /\ UNCHANGED <<acct, prev, packRes, rres>>
    /\ UNCHANGED insVars

\* the account data is shorter than the record
Shorten(n) ==
    /\ rres = NoResult
    /\ n < Len(buf)
    /\ buf' = SubSeq(buf, 1, n)
    /\ stage' = "edited"
    /\ UNCHANGED <<acct, prev, packRes, rres>>
    /\ UNCHANGED insVars

\* the processor reads the record back from the account's data
RecUnpack ==
    /\ rres = NoResult
    /\ rres' = unpack_from_slice(acct.kind, buf)
    /\ UNCHANGED <<acct, prev, buf, packRes, stage>>
    /\ UNCHANGED insVars

(***************************************************************************)
(* Specifications.  The codecs share no state: each is checked on its own, *)
(* the other's variables staying as Init leaves them.                      *)
(***************************************************************************)
\* StakeAccount::default() and a zeroed account of its length
DefaultStakeAccount ==
    StakeAccount(0, DecZero, PkZero, PkZero, U64Zero, DecZero, reserve_field,
                 reserve_field, reserve_field, reserve_field)

Init ==
    /\ ins = CreateStakeAccount
    /\ data = <<>>
    /\ wire = "none"
    /\ decoded = NoResult
    /\ acct = DefaultStakeAccount
    /\ prev = Filled(StakeAccountLEN, 0)
    /\ buf = Filled(StakeAccountLEN, 0)
    /\ packRes = NoResult
    /\ stage = "fresh"
    /\ rres = NoResult

InstructionNext ==
    \/ \E x \in Instructions : Pack(x)
    \/ \E n \in 0..(Len(data) - 1) : Truncate(n)
    \/ \E t \in Trails : AppendTrailing(t)
    \/ \E b \in UnknownTags : Retag(b)
    \/ \E b \in RawInputs : Receive(b)
    \/ Unpack

RecordNext ==
    \/ \E r \in Records : \E d \in Destinations(r.kind) : RecPack(r, d)
    \/ \E v \in Versions : SetVersion(v)
    \/ \E k \in DecimalRegions(acct.kind) : CorruptDecimal(k)
    \/ \E n \in ShortLengths(acct.kind) : Shorten(n)
    \/ RecUnpack

InstructionSpec == Init /\ [][InstructionNext]_vars
RecordSpec == Init /\ [][RecordNext]_vars

(***************************************************************************)
(* Properties of the instruction codec (checked under InstructionSpec).    *)
(***************************************************************************)
IsBytes(s) == \A i \in 1..Len(s) : s[i] \in Byte
IsProperPrefix(p, s) == Len(p) < Len(s) /\ p = SubSeq(s, 1, Len(p))
\* byte i (0 the least significant) of a 64-bit value
ByteOf(v, i) == (v[(i \div 2) + 1] \div (IF i % 2 = 0 THEN 1 ELSE 256)) % 256
\* d holds the 64-bit value v, little-endian, in the 8 bytes after offset off
LE8At(d, off, v) == \A i \in 0..7 : d[off + 1 + i] = ByteOf(v, i)
\* d holds the 32-byte key k in the 32 bytes after offset off
KeyAt(d, off, k) == \A i \in 1..32 : d[off + i] = k[i]
U64Max == <<65535, 65535, 65535, 65535>>
OneMillion == <<16960, 15, 0, 0>>

\* C1: unpack(x.pack()) succeeds and returns x, for every instruction x; pack
\* always yields a byte sequence.
C1_RoundTrip ==
    /\ IsBytes(pack(ins))
    /\ (wire = "exact" /\ decoded # NoResult) =>
           (data = pack(ins) /\ decoded = Ok(ins))

C1_Witness ==
    /\ wire = "exact"
    /\ ins.variant = "InitStakingPool"
    /\ ins.supply = U64Max
    /\ ins.duration # ins.earliest_reward_claim_time
    /\ ins.pool_owner_authority # ins.admin_authority
    /\ decoded = Ok(ins)

\* C2: unpack(x.pack() ++ t) fails with InstructionUnpackError for every
\* instruction x and every non-empty t.
C2_TrailingBytesRejected ==
    (decoded # NoResult /\ IsProperPrefix(pack(ins), data)) =>
        decoded = InstructionUnpackError

C2_Witness ==
    /\ wire = "extended"
    /\ ins.variant = "CreateStakeAccount"
    /\ data = <<1, 0>>
    /\ decoded = InstructionUnpackError

\* C3: unpack(p) fails with InstructionUnpackError for every proper prefix p of
\* an encoded instruction, the empty input included.
C3_TruncationRejected ==
    (decoded # NoResult /\ (data = <<>> \/ IsProperPrefix(data, pack(ins)))) =>
        decoded = InstructionUnpackError

C3_Witness ==
    /\ wire = "truncated"
    /\ ins.variant = "InitStakingPool"
    /\ Len(data) = 73
    /\ Len(pack(ins)) = 90
    /\ data[1] = 0
    /\ decoded = InstructionUnpackError

\* C4: unpack fails with InstructionUnpackError on every input whose tag byte
\* is 5 or more, whatever follows the tag.
C4_UnknownTagRejected ==
    (decoded # NoResult /\ data # <<>> /\ data[1] >= 5) =>
        decoded = InstructionUnpackError

C4_Witness ==
    /\ wire = "retagged"
    /\ data[1] = 5
    /\ Len(data) = 90
    /\ decoded = InstructionUnpackError

\* the bytes pack writes: the tag, then the variant's fields in declared order,
\* integers little-endian
PackLayoutFields ==
    /\ ins.variant = "InitStakingPool" =>
          /\ data[1] = 0
          /\ LE8At(data, 1, ins.supply)
          /\ LE8At(data, 9, ins.duration)
          /\ LE8At(data, 17, ins.earliest_reward_claim_time)
          /\ data[26] = ins.bump_seed_staking_program
          /\ KeyAt(data, 26, ins.pool_owner_authority)
          /\ KeyAt(data, 58, ins.admin_authority)
    /\ ins.variant = "CreateStakeAccount" => data = <<1>>
    /\ ins.variant = "Deposit" =>
          Len(data) = 9 /\ data[1] = 2 /\ LE8At(data, 1, ins.amount)
    /\ ins.variant = "Withdraw" =>
          Len(data) = 9 /\ data[1] = 3 /\ LE8At(data, 1, ins.amount)
    /\ ins.variant = "ClaimReward" => data = <<4>>
    /\ ins = Deposit(OneMillion) => data = <<2, 64, 66, 15, 0, 0, 0, 0, 0>>

\* C5 (as amended): pack writes the tag, then the variant's fields in declared
\* order, integers little-endian; an InitStakingPool takes 90 bytes
\* (1 + 8 + 8 + 8 + 1 + 32 + 32), Deposit and Withdraw 9, CreateStakeAccount
\* and ClaimReward 1; Deposit(1_000_000) is [2,64,66,15,0,0,0,0,0].
C5_PackLayout ==
    wire = "exact" =>
        /\ ins.variant = "InitStakingPool" => Len(data) = 90
        /\ PackLayoutFields

\* C5 as claimed: the same layout, with an InitStakingPool taking 74 bytes.
C5_PackLayout74 ==
    wire = "exact" =>
        /\ ins.variant = "InitStakingPool" => Len(data) = 74
        /\ PackLayoutFields

C5_Witness ==
    /\ wire = "exact"
    /\ ins.variant = "InitStakingPool"
    /\ ins.supply = U64Max
    /\ ins.duration # ins.earliest_reward_claim_time
    /\ ins.pool_owner_authority # ins.admin_authority
    /\ Len(data) = 90
    /\ decoded = NoResult

(***************************************************************************)
(* Properties of the record codecs (checked under RecordSpec).             *)
(***************************************************************************)
ReservedZero(r) ==
    /\ r.reserve_fields1 = reserve_field
    /\ r.reserve_fields2 = reserve_field
    /\ r.reserve_fields3 = reserve_field
    /\ r.reserve_fields4 = reserve_field
\* every Decimal region of the buffer unpacks
DecimalsUnpack(kind, b) ==
    \A k \in DecimalRegions(kind) :
        Decimal_unpack_from_slice(region(b, Widths(kind), k)).ok
\* the buffer d with every byte after the first n changed
OtherTail(d, n) ==
    SubSeq(d, 1, n) \o [i \in 1..(Len(d) - n) |-> 255 - d[n + i]]

\* C6 as claimed: a record with zero reserved fields, whatever its version,
\* written to a buffer of LEN bytes, is read back as itself.
C6_RoundTripAnyVersion ==
    (stage = "packed" /\ Len(prev) = LEN(acct.kind) /\ ReservedZero(acct)
        /\ rres # NoResult) => rres = Ok(acct)

\* C6 (as amended): a record with zero reserved fields and a version of at
\* most PROGRAM_VERSION, written to a buffer of LEN bytes, is read back as
\* itself.
C6_RoundTrip ==
    (stage = "packed" /\ Len(prev) = LEN(acct.kind) /\ ReservedZero(acct)
        /\ acct.version <= PROGRAM_VERSION /\ rres # NoResult) =>
            rres = Ok(acct)

C6_Witness ==
    /\ stage = "packed"
    /\ acct.kind = "StakingPool"
    /\ acct.version = PROGRAM_VERSION
    /\ acct.duration # acct.earliest_reward_claim_time
    /\ Len(prev) = StakingPoolLEN
    /\ prev[1] = 171
    /\ ReservedZero(acct)
    /\ rres = Ok(acct)

\* C7: on a buffer of at least LEN bytes, a version byte above PROGRAM_VERSION
\* makes unpack_from_slice fail with InvalidAccountData whatever the Decimal
\* regions hold; a version byte of PROGRAM_VERSION or UNINITIALIZED_VERSION is
\* not rejected, and the decode succeeds exactly when the Decimal regions
\* unpack.
C7_VersionGate ==
    (rres # NoResult /\ Len(buf) >= LEN(acct.kind)) =>
        /\ buf[1] > PROGRAM_VERSION => rres = InvalidAccountData
        /\ buf[1] \in {PROGRAM_VERSION, UNINITIALIZED_VERSION} =>
              /\ rres # InvalidAccountData
              /\ rres.ok <=> DecimalsUnpack(acct.kind, buf)
              /\ rres.ok => rres.val.version = buf[1]

C7_Witness ==
    /\ Len(buf) > LEN(acct.kind)
    /\ buf[1] = PROGRAM_VERSION + 1
    /\ ~DecimalsUnpack(acct.kind, buf)
    /\ rres = InvalidAccountData

\* C8 as claimed: unpack_from_slice on a buffer shorter than LEN returns an
\* error value; it neither aborts nor yields a record.
C8_ShortBufferIsErrorValue ==
    (rres # NoResult /\ Len(buf) < LEN(acct.kind)) =>
        (~rres.ok /\ rres # Panic)

\* C9 as claimed: after pack_into_slice into a buffer of at least LEN bytes,
\* the 128 reserved bytes at [LEN-128, LEN) are zero.
C9_ReservedZeroed ==
    (stage = "packed" /\ packRes = Done) =>
        \A i \in (LEN(acct.kind) - 127)..LEN(acct.kind) : buf[i] = 0

\* C10: pack_into_slice into a buffer longer than LEN leaves the bytes from
\* index LEN on as they were, and the first LEN bytes it leaves are the same
\* whatever the bytes from index LEN on held.
C10_FrameBeyondLEN ==
    (stage = "packed" /\ packRes = Done) =>
        /\ Len(buf) = Len(prev)
        /\ \A i \in (LEN(acct.kind) + 1)..Len(prev) : buf[i] = prev[i]
        /\ SubSeq(buf, 1, LEN(acct.kind)) =
              SubSeq(pack_into_slice(acct, OtherTail(prev, LEN(acct.kind))).buf,
                     1, LEN(acct.kind))

C10_Witness ==
    /\ stage = "packed"
    /\ packRes = Done
    /\ Len(prev) > LEN(acct.kind)
    /\ prev[Len(prev)] = 171
    /\ buf[Len(buf)] = 171
    /\ buf # prev

\* b holds the Decimal d in the DecimalLEN bytes after offset off
DecAt(b, off, d) == \A i \in 1..DecimalLEN : b[off + i] = Decimal_pack(d)[i]

\* b holds the named fields of the StakeAccount r at the offsets of the layout
\* version | start_rate | owner | pool_pubkey | deposited_amount |
\* unclaimed_reward_wads | reserved
StakeAccountFieldsAt(b, r) ==
    /\ b[1] = r.version
    /\ DecAt(b, 1, r.start_rate)
    /\ KeyAt(b, 1 + DecimalLEN, r.owner)
    /\ KeyAt(b, 33 + DecimalLEN, r.pool_pubkey)
    /\ LE8At(b, 65 + DecimalLEN, r.deposited_amount)
    /\ DecAt(b, 73 + DecimalLEN, r.unclaimed_reward_wads)
    /\ 73 + DecimalLEN + DecimalLEN + 128 = StakeAccountLEN

\* b holds the named fields of the StakingPool r at the offsets of the layout
\* version | owner_authority | admin_authority | reward_token_pool |
\* last_update | end_time | duration | earliest_reward_claim_time |
\* rate_per_slot | cumulative_rate | pool_size | bump_seed_staking_program |
\* reserved
StakingPoolFieldsAt(b, r) ==
    /\ b[1] = r.version
    /\ KeyAt(b, 1, r.owner_authority)
    /\ KeyAt(b, 33, r.admin_authority)
    /\ KeyAt(b, 65, r.reward_token_pool)
    /\ LE8At(b, 97, r.last_update)
    /\ LE8At(b, 105, r.end_time)
    /\ LE8At(b, 113, r.duration)
    /\ LE8At(b, 121, r.earliest_reward_claim_time)
    /\ DecAt(b, 129, r.rate_per_slot)
    /\ DecAt(b, 129 + DecimalLEN, r.cumulative_rate)
    /\ LE8At(b, 129 + DecimalLEN + DecimalLEN, r.pool_size)
    /\ b[138 + DecimalLEN + DecimalLEN] = r.bump_seed_staking_program
    /\ 138 + DecimalLEN + DecimalLEN + 128 = StakingPoolLEN

FieldsAt(b, r) ==
    IF r.kind = "StakeAccount" THEN StakeAccountFieldsAt(b, r)
    ELSE StakingPoolFieldsAt(b, r)

\* C11: pack_into_slice places, and unpack_from_slice reads, every named field
\* at the cumulative offset of the documented layout, integers little-endian;
\* for a StakingPool duration takes the 8 bytes before
\* earliest_reward_claim_time.
C11_FieldOffsets ==
    /\ (stage = "packed" /\ packRes = Done) => FieldsAt(buf, acct)
    /\ rres.ok => (rres.val.kind = acct.kind /\ FieldsAt(buf, rres.val))

C11_Witness ==
    /\ stage = "packed"
    /\ packRes = Done
    /\ acct.kind = "StakingPool"
    /\ acct.duration = U64D
    /\ acct.earliest_reward_claim_time = U64C
    /\ LE8At(buf, 113, U64D)
    /\ LE8At(buf, 121, U64C)
    /\ rres.ok
    /\ rres.val.duration = U64D
    /\ rres.val.earliest_reward_claim_time = U64C

\* C12: the instruction encoding is canonical: whenever unpack succeeds on
\* some bytes with a value x, x.pack() is those bytes, so no two byte
\* sequences decode to the same instruction.
C12_CanonicalEncoding ==
    decoded.ok => pack(decoded.val) = data

C12_Witness ==
    /\ wire = "raw"
    /\ Len(data) = 90
    /\ data[2] = 37
    /\ decoded.ok
    /\ decoded.val.variant = "InitStakingPool"
    /\ pack(decoded.val) = data

====
